---- MODULE Spec2Model ----
(***************************************************************************)
(* The pile backend: the status derivation of PileEntry.effective_status,  *)
(* the sync-time abandonment predicate, the playtime sync, the batch step  *)
(* of the library import and the explicit status actions, over a database  *)
(* of steam_games and pile_entries rows.                                   *)
(*                                                                         *)
(* Time is counted in whole days since the Unix epoch (a datetime is an    *)
(* integer number of days); Steam's rtime_last_played is in epoch seconds. *)
(* An optional value is a sequence of length 0 (None) or 1.                *)
(*                                                                         *)
(* Spec drives the service layer for one user and one game; SpecShared has *)
(* two users who own the same game; SpecGames has one user with two games; *)
(* SpecImport has the import endpoint, its cooldown gate and its           *)
(* background tasks.                                                       *)
(***************************************************************************)
EXTENDS Integers, Sequences, FiniteSets, TLC

VARIABLES library, now, steam_games, pile_entries, last,
          settings, users, import_tasks, import_status

vars == <<library, now, steam_games, pile_entries, last,
          settings, users, import_tasks, import_status>>

\* the deployment's settings, the users rows, the background import tasks
\* and the import_status rows
api == <<settings, users, import_tasks, import_status>>

\* ------------------------------------------------------------------ bounds
MaxPlaytime == 1
MaxTicks == 1
\* the import tasks of one user that are under way at a time
MaxImportTasks == 2
\* the imports one user starts in all
MaxImportRuns == 2

\* ------------------------------------------------------- program constants
\* timedelta(days=90) of effective_status and of _detect_abandoned_status
ABANDON_DAYS == 90
SYNC_ABANDON_DAYS == 90
\* Settings.IMPORT_RATE_LIMIT_HOURS: 0 = disabled
IMPORT_RATE_LIMIT_HOURS == 0
\* timedelta(days=30) of request_account_deletion
DELETION_GRACE_DAYS == 30

SecondsPerDay == 24 * 60 * 60
StartDay == 200 * 100
\* the clock moves in steps of 91 days
TickDays == ABANDON_DAYS + 1

\* ---------------------------------------------------------------- optionals
None == <<>>
Some(x) == <<x>>
IsSome(o) == Len(o) > 0
Get(o) == o[1]
\* Python's `a or b` on two optional datetimes (a datetime is always truthy)
OrElse(a, b) == IF IsSome(a) THEN a ELSE b

\* -------------------------------------------------------------- the domain
Users == {"alice", "bob"}
Games == {"portal", "hl2"}
\* the registered users and the games each one's Steam account owns:
\* GetOwnedGames only ever returns games of the account
Libraries == {[u \in {"alice"} |-> {"portal"}]}
\* a users row
NewUser ==
    [last_sync_at |-> None,
     deletion_requested_at |-> None,
     deletion_scheduled_at |-> None]

UNPLAYED == "unplayed"
PLAYING == "playing"
COMPLETED == "completed"
ABANDONED == "abandoned"
AMNESTY_GRANTED == "amnesty_granted"
GameStatus == {UNPLAYED, PLAYING, COMPLETED, ABANDONED, AMNESTY_GRANTED}

\* strings are sequences of words, so that startswith is computed
AUTO_PREFIX == <<"Automatically", "detected">>
AutoReason(activity_source) ==
    <<"Automatically", "detected", "during", "sync", "-", "no", "recent",
      "activity", "(", "using", activity_source, "data", ")">>
ManualReasons == {<<"Lost", "interest">>}
StartsWith(s, prefix) ==
    /\ Len(s) >= Len(prefix)
    /\ SubSeq(s, 1, Len(prefix)) = prefix

\* datetime.fromtimestamp(rtime, tz=utc): epoch seconds to a UTC datetime
FromTimestamp(rtime) == rtime \div SecondsPerDay

\* ------------------------------------------- PileEntry.effective_status
\* the activity date the derivation compares against the threshold
ActivityDate(entry, steam_game, current_time) ==
    LET three_months_ago == current_time - ABANDON_DAYS
        rtime == IF IsSome(steam_game) THEN Get(steam_game).rtime_last_played ELSE None
        from_steam == IF IsSome(rtime) /\ Get(rtime) # 0
                      THEN Some(FromTimestamp(Get(rtime)))
                      ELSE None
        from_db == OrElse(entry.updated_at, entry.created_at)
    IN  IF IsSome(from_steam) THEN Get(from_steam)
        ELSE IF IsSome(from_db) THEN Get(from_db)
        ELSE three_months_ago - 365

\* (a check that forgets the amnesty)
KeepsStoredStatus_OnlyCompleted(entry) == entry.status = COMPLETED

\* completed and amnesty granted games keep their status
KeepsStoredStatus(entry) == entry.status \in {COMPLETED, AMNESTY_GRANTED}

\* manually marked as abandoned
ManuallyAbandoned(entry) ==
    /\ entry.status = ABANDONED
    /\ IsSome(entry.abandon_reason)
    /\ Len(Get(entry.abandon_reason)) > 0
    /\ ~StartsWith(Get(entry.abandon_reason), AUTO_PREFIX)

\* (criteria without the one for unplayed games)
AbandonmentCriteria_NoUnplayedRule(entry, activity_date, three_months_ago) ==
    entry.playtime_minutes > 0 /\ activity_date < three_months_ago

\* (criteria that count the 90th day as stale)
AbandonmentCriteria_Inclusive(entry, activity_date, three_months_ago) ==
    \/ /\ entry.status = UNPLAYED
       /\ entry.playtime_minutes = 0
       /\ activity_date <= three_months_ago
    \/ entry.playtime_minutes > 0 /\ activity_date <= three_months_ago

\* the abandonment criteria: 1. unplayed games older than 3 months,
\* 2. games with playtime but no activity in 3+ months
AbandonmentCriteria(entry, activity_date, three_months_ago) ==
    \/ /\ entry.status = UNPLAYED
       /\ entry.playtime_minutes = 0
       /\ activity_date < three_months_ago
    \/ entry.playtime_minutes > 0 /\ activity_date < three_months_ago

\* (a derivation that takes an abandoned entry back, whatever its reason,
\* when no criterion is met)
effective_status_Revives(entry, steam_game, current_time) ==
    LET three_months_ago == current_time - ABANDON_DAYS
        activity_date == ActivityDate(entry, steam_game, current_time)
    IN  IF KeepsStoredStatus(entry) THEN entry.status
        ELSE IF AbandonmentCriteria(entry, activity_date, three_months_ago)
             THEN ABANDONED
        ELSE IF entry.status = ABANDONED
             THEN IF entry.playtime_minutes > 0 THEN PLAYING ELSE UNPLAYED
        ELSE entry.status

\* (a derivation that takes an automatically abandoned entry back when no
\* criterion is met)
effective_status_RevivesAuto(entry, steam_game, current_time) ==
    LET three_months_ago == current_time - ABANDON_DAYS
        activity_date == ActivityDate(entry, steam_game, current_time)
    IN  IF KeepsStoredStatus(entry) THEN entry.status
        ELSE IF ManuallyAbandoned(entry) THEN entry.status
        ELSE IF AbandonmentCriteria(entry, activity_date, three_months_ago)
             THEN ABANDONED
        ELSE IF entry.status = ABANDONED
             THEN IF entry.playtime_minutes > 0 THEN PLAYING ELSE UNPLAYED
        ELSE entry.status

effective_status(entry, steam_game, current_time) ==
    LET three_months_ago == current_time - ABANDON_DAYS
        activity_date == ActivityDate(entry, steam_game, current_time)
    IN  IF KeepsStoredStatus(entry) THEN entry.status
        ELSE IF ManuallyAbandoned(entry) THEN entry.status
        ELSE IF AbandonmentCriteria(entry, activity_date, three_months_ago)
             THEN ABANDONED
        ELSE entry.status

\* ------------------------------- PileService._detect_abandoned_status
\* (a predicate that looks at every entry)
AutoAbandonable_Any(current_status) == TRUE

\* only games that are currently unplayed or playing are auto-abandoned
AutoAbandonable(current_status) == current_status \in {UNPLAYED, PLAYING}

detect_abandoned_status(current_playtime, stored_playtime, current_status, last_updated, current_time) ==
    LET playtime_unchanged == current_playtime = stored_playtime
        three_months_ago == current_time - SYNC_ABANDON_DAYS
        last_activity == IF IsSome(last_updated) THEN Get(last_updated)
                         ELSE three_months_ago - 365
    IN  IF ~AutoAbandonable(current_status) THEN current_status
        ELSE IF /\ current_status = UNPLAYED
                /\ current_playtime = 0
                /\ last_activity < three_months_ago
             THEN ABANDONED
        ELSE IF /\ current_playtime > 0
                /\ playtime_unchanged
                /\ last_activity < three_months_ago
             THEN ABANDONED
        ELSE IF /\ current_status = PLAYING
                /\ playtime_unchanged
                /\ current_playtime > 0
                /\ last_activity < three_months_ago
             THEN ABANDONED
        ELSE current_status

\* ------------------------------------------------------------------ state
\* (an entry created with the column default of status, whatever its playtime)
NewEntry_AlwaysUnplayed(playtime, created) ==
    [status |-> UNPLAYED,
     playtime_minutes |-> playtime,
     created_at |-> Some(created),
     updated_at |-> None,
     abandon_date |-> None,
     abandon_reason |-> None]

\* a row of pile_entries (completion_date and amnesty_date are not
\* modelled: no rule of the derivation or of the sync reads them)
NewEntry(playtime, created) ==
    [status |-> IF playtime = 0 THEN UNPLAYED ELSE PLAYING,
     playtime_minutes |-> playtime,
     created_at |-> Some(created),
     updated_at |-> None,
     abandon_date |-> None,
     abandon_reason |-> None]

EmptyMap == [g \in {} |-> None]

\* what the last operation was given and what it answered
Last(op, user, owned_games, statuses, updated, abandoned, checked, ok) ==
    [op |-> op, user |-> user, owned_games |-> owned_games,
     statuses |-> statuses, updated_count |-> updated,
     abandoned_count |-> abandoned, checked_count |-> checked, ok |-> ok,
     status_filter |-> None, http_request |-> None, cleared_count |-> 0,
     reality_check |-> None]

\* what GetOwnedGames can report for one game at a given time
\* (absent, 0, negative, or the epoch seconds of a day that is not in the
\* future: today, or 90 or 91 days before the first day)
PlayedDays(t) ==
    {StartDay - (ABANDON_DAYS + 1), StartDay - ABANDON_DAYS, t}

RtimeValues(t) ==
    {None, Some(0), Some(0 - SecondsPerDay)}
        \cup {Some(d * SecondsPerDay) : d \in PlayedDays(t)}

GameData(t) ==
    [playtime_forever : 0..MaxPlaytime, rtime_last_played : RtimeValues(t)]

\* the lists GetOwnedGames can return for a user: any part of the library
OwnedGames(u, t) ==
    UNION {[S -> GameData(t)] : S \in SUBSET library[u]}

Init ==
    /\ library \in Libraries
    /\ now = StartDay
    /\ steam_games = [g \in Games |-> None]
    /\ pile_entries = [u \in DOMAIN library |-> [g \in Games |-> None]]
    /\ last = Last("init", "nobody", EmptyMap, EmptyMap, 0, 0, 0, TRUE)
    /\ settings = [IMPORT_RATE_LIMIT_HOURS |-> IMPORT_RATE_LIMIT_HOURS]
    /\ users = [u \in DOMAIN library |-> NewUser]
    /\ import_tasks = [u \in DOMAIN library |-> <<>>]
    /\ import_status = [u \in DOMAIN library |-> <<>>]

\* the clock advances
Tick ==
    /\ now + TickDays <= StartDay + MaxTicks * TickDays
    /\ now' = now + TickDays
    /\ last' = Last("tick", "nobody", EmptyMap, EmptyMap, 0, 0, 0, TRUE)
    /\ UNCHANGED <<library, steam_games, pile_entries, api>>

\* ------------------------------------ PileService._process_game_batch
\* what the batch step writes and commits: the steam_games row of every game
\* of the batch, and the user's pile entry for it
process_game_batch(u, batch_games) ==
    /\ steam_games' =
         [g \in Games |->
            IF g \in DOMAIN batch_games
            THEN Some([rtime_last_played |-> batch_games[g].rtime_last_played])
            ELSE steam_games[g]]
    /\ pile_entries' =
         [pile_entries EXCEPT ![u] =
            [g \in Games |->
               IF g \notin DOMAIN batch_games THEN pile_entries[u][g]
               ELSE IF ~IsSome(pile_entries[u][g])
                    THEN Some(NewEntry(batch_games[g].playtime_forever, now))
               ELSE Some([Get(pile_entries[u][g]) EXCEPT
                            !.playtime_minutes = batch_games[g].playtime_forever,
                            !.updated_at = Some(now)])]]

\* the batch loop of import_steam_library, for a library of one batch
import_games(u, batch_games) ==
    /\ process_game_batch(u, batch_games)
    /\ last' = Last("import", u, batch_games, EmptyMap, 0, 0, 0, TRUE)
    /\ UNCHANGED <<library, now, api>>

\* ---------------------------------------------- PileService.sync_playtime
LastPlayedMap(owned_games) ==
    [g \in DOMAIN owned_games |->
       LET rtime_last_played == owned_games[g].rtime_last_played
       IN  IF /\ IsSome(rtime_last_played)
              /\ Get(rtime_last_played) # 0
              /\ Get(rtime_last_played) > 0
           THEN Some(FromTimestamp(Get(rtime_last_played)))
           ELSE None]

\* (a sync that labels every reference instant as Steam's)
SyncActivity_AlwaysSteam(entry, steam_last_played) ==
    IF IsSome(steam_last_played)
    THEN [date |-> steam_last_played, source |-> "Steam"]
    ELSE [date |-> OrElse(entry.updated_at, entry.created_at),
          source |-> "Steam"]

\* the reference instant the sync hands to the predicate, and its label
SyncActivity(entry, steam_last_played) ==
    IF IsSome(steam_last_played)
    THEN [date |-> steam_last_played, source |-> "Steam"]
    ELSE [date |-> OrElse(entry.updated_at, entry.created_at),
          source |-> "Database"]

\* (a sync that only ever raises the stored playtime)
PlaytimeChanged_OnlyRaised(current_playtime, stored_playtime) ==
    current_playtime > stored_playtime

PlaytimeChanged(current_playtime, stored_playtime) ==
    current_playtime # stored_playtime

\* (a sync that abandons an entry without dating the abandonment)
MarkAbandoned_NoDate(entry, new_status, activity_source, current_time) ==
    [entry EXCEPT !.status = new_status,
                  !.abandon_reason = Some(AutoReason(activity_source)),
                  !.updated_at = Some(current_time)]

\* what the sync writes on an entry when the abandoned detection triggered
MarkAbandoned(entry, new_status, activity_source, current_time) ==
    [entry EXCEPT !.status = new_status,
                  !.abandon_date = Some(current_time),
                  !.abandon_reason = Some(AutoReason(activity_source)),
                  !.updated_at = Some(current_time)]

\* the body of the loop over the pile entries, for one entry
SyncEntry(entry, current_playtime, steam_last_played, current_time) ==
    LET stored_playtime == entry.playtime_minutes
        activity == SyncActivity(entry, steam_last_played)
        new_status == detect_abandoned_status(current_playtime, stored_playtime,
                                              entry.status, activity.date,
                                              current_time)
        playtime_changed == PlaytimeChanged(current_playtime, stored_playtime)
        abandoned == new_status # entry.status /\ new_status = ABANDONED
        e1 == IF playtime_changed
              THEN [entry EXCEPT !.playtime_minutes = current_playtime,
                                 !.updated_at = Some(current_time)]
              ELSE entry
        e2 == IF abandoned
              THEN MarkAbandoned(e1, new_status, activity.source, current_time)
              ELSE e1
        e3 == IF playtime_changed \/ new_status # e2.status
              THEN [e2 EXCEPT !.updated_at = Some(current_time)]
              ELSE e2
    IN  [entry |-> e3, new_status |-> new_status,
         playtime_changed |-> playtime_changed, abandoned |-> abandoned]

\* dict.get(key, default)
GetOr(map, key, default) ==
    IF key \in DOMAIN map THEN map[key] ELSE default

\* (a query without the filter on the fetched app ids)
Checked_All(u, owned_games) ==
    {g \in Games : IsSome(pile_entries[u][g])}

\* the entries the query of the sync returns
Checked(u, owned_games) ==
    {g \in Games : IsSome(pile_entries[u][g]) /\ g \in DOMAIN owned_games}

\* the loop over the pile entries, run over the entries of `entries`
SyncWork(u, owned_games, entries) ==
    LET playtime_map == [g \in DOMAIN owned_games |-> owned_games[g].playtime_forever]
        last_played_map == LastPlayedMap(owned_games)
    IN  [g \in entries |->
           SyncEntry(Get(pile_entries[u][g]),
                     GetOr(playtime_map, g, 0),
                     GetOr(last_played_map, g, None), now)]

sync_playtime(u, owned_games) ==
    LET checked == Checked(u, owned_games)
        done == SyncWork(u, owned_games, checked)
    IN  /\ pile_entries' =
             [pile_entries EXCEPT ![u] =
                [g \in Games |-> IF g \in checked THEN Some(done[g].entry)
                                 ELSE pile_entries[u][g]]]
        /\ last' = Last("sync", u, owned_games,
                        [g \in checked |-> done[g].new_status],
                        Cardinality({g \in checked : done[g].playtime_changed}),
                        Cardinality({g \in checked : done[g].abandoned}),
                        Cardinality(checked), TRUE)
        /\ UNCHANGED <<library, now, steam_games, api>>

\* (a failed run whose writes stay in the database)
Rollback_KeepsSession(persisted, session) == session

\* db.rollback(): the rows are as the last commit left them
Rollback(persisted, session) == persisted

\* the run raises before its commit: in get_steam_owned_games (nothing is
\* written yet), or after the loop has written the entries of `written` in
\* the session; the sync rolls back and re-raises
sync_playtime_error(u, owned_games, written) ==
    LET done == SyncWork(u, owned_games, written)
        session == [g \in Games |-> IF g \in written THEN Some(done[g].entry)
                                    ELSE pile_entries[u][g]]
    IN  /\ written \subseteq Checked(u, owned_games)
        /\ pile_entries' =
             [pile_entries EXCEPT ![u] = Rollback(pile_entries[u], session)]
        /\ last' = Last("sync", u, EmptyMap, EmptyMap,
                        Cardinality({g \in written : done[g].playtime_changed}),
                        Cardinality({g \in written : done[g].abandoned}),
                        Cardinality(written), FALSE)
        /\ UNCHANGED <<library, now, steam_games, api>>

\* ------------------------------------------- PileRepository.update_status
\* the row as the commit leaves it: updated_at has onupdate=now(), so an
\* UPDATE that changes a column refreshes it
Committed(before, after) ==
    IF after # before THEN [after EXCEPT !.updated_at = Some(now)] ELSE after

\* a user action on the entry of (u, g): it writes `status` and, when one is
\* given, the abandon reason; `date_column` names the date column it also
\* writes ("none" when it writes none), and a written date always differs
\* (an update that treats Completed and AmnestyGranted as final)
WrittenRow_KeepsTerminal(before, status, reason, date_column) ==
    LET after == [before EXCEPT
                    !.status = IF @ \in {COMPLETED, AMNESTY_GRANTED}
                               THEN @ ELSE status,
                    !.abandon_reason = OrElse(reason, @),
                    !.abandon_date = IF date_column = "abandon_date"
                                     THEN Some(now) ELSE @]
    IN  IF date_column # "none"
        THEN [after EXCEPT !.updated_at = Some(now)]
        ELSE Committed(before, after)

\* the row the update leaves
WrittenRow(before, status, reason, date_column) ==
    LET after == [before EXCEPT
                    !.status = status,
                    !.abandon_reason = OrElse(reason, @),
                    !.abandon_date = IF date_column = "abandon_date"
                                     THEN Some(now) ELSE @]
    IN  IF date_column # "none"
        THEN [after EXCEPT !.updated_at = Some(now)]
        ELSE Committed(before, after)

\* the status an action asked for, for the game it asked it for
Asked(g, status) == [h \in {g} |-> status]

UserAction(op, u, g, status, reason, date_column) ==
    /\ IF IsSome(pile_entries[u][g])
       THEN LET row == WrittenRow(Get(pile_entries[u][g]), status, reason,
                                  date_column)
            IN  /\ pile_entries' = [pile_entries EXCEPT ![u][g] = Some(row)]
                /\ last' = Last(op, u, EmptyMap, Asked(g, status), 0, 0, 0, TRUE)
       ELSE /\ last' = Last(op, u, EmptyMap, Asked(g, status), 0, 0, 0, FALSE)
            /\ UNCHANGED pile_entries
    /\ UNCHANGED <<library, now, steam_games, api>>

grant_amnesty(u, g) ==
    UserAction("grant_amnesty", u, g, AMNESTY_GRANTED, None, "amnesty_date")

start_playing(u, g) ==
    UserAction("start_playing", u, g, PLAYING, None, "none")

mark_completed(u, g) ==
    UserAction("mark_completed", u, g, COMPLETED, None, "completion_date")

mark_abandoned(u, g, reason) ==
    UserAction("mark_abandoned", u, g, ABANDONED, Some(reason), "abandon_date")

\* ---------------------------------------------- PileService.update_status
StatusStrings == GameStatus \cup {"bogus"}

\* the timestamp update_status sets for a status
DateColumn(status) ==
    IF status = COMPLETED THEN "completion_date"
    ELSE IF status = AMNESTY_GRANTED THEN "amnesty_date"
    ELSE IF status = ABANDONED THEN "abandon_date"
    ELSE "none"

\* (an update that takes any string for a status)
ValidStatus_Any(status) == TRUE

\* status in status_map
ValidStatus(status) == status \in GameStatus

update_status(u, g, status) ==
    IF ValidStatus(status)
    THEN UserAction("update_status", u, g, status, None, DateColumn(status))
    ELSE /\ last' = Last("update_status", u, EmptyMap, Asked(g, status), 0, 0, 0, FALSE)
         /\ UNCHANGED <<library, now, steam_games, pile_entries, api>>

\* ------------------------------------------------------ get_pile (listing)
\* the status every listed entry is displayed with
Displayed(u) ==
    [g \in {h \in Games : IsSome(pile_entries[u][h])} |->
       effective_status(Get(pile_entries[u][g]), steam_games[g], now)]

get_pile(u) ==
    /\ last' = Last("get_pile", u, EmptyMap, Displayed(u), 0, 0, 0, TRUE)
    /\ UNCHANGED <<library, now, steam_games, pile_entries, api>>

\* the listing with a status filter: get_filtered_pile selects the entries
\* by their status column, the response shows each with its effective status
FilteredDisplayed(u, status) ==
    [g \in {h \in Games : /\ IsSome(pile_entries[u][h])
                          /\ Get(pile_entries[u][h]).status = status} |->
       effective_status(Get(pile_entries[u][g]), steam_games[g], now)]

get_filtered_pile(u, status) ==
    /\ last' = [Last("get_filtered_pile", u, EmptyMap,
                     FilteredDisplayed(u, status), 0, 0, 0, TRUE)
                  EXCEPT !.status_filter = Some(status)]
    /\ UNCHANGED <<library, now, steam_games, pile_entries, api>>

\* ------------------------------------ StatsService.calculate_reality_check
\* the pile stats of the reality check: the counts of the user's rows, and
\* of those whose status column is UNPLAYED
RealityCheck(u) ==
    [total_games |-> Cardinality({g \in Games : IsSome(pile_entries[u][g])}),
     unplayed_games |->
        Cardinality({g \in Games : /\ IsSome(pile_entries[u][g])
                                   /\ Get(pile_entries[u][g]).status = UNPLAYED})]

calculate_reality_check(u) ==
    /\ last' = [Last("reality_check", u, EmptyMap, EmptyMap, 0, 0, 0, TRUE)
                  EXCEPT !.reality_check = Some(RealityCheck(u))]
    /\ UNCHANGED <<library, now, steam_games, pile_entries, api>>

\* ------------------------------------------- the endpoints of a pile entry
\* the id of a pile_entries row: the row of (user, game) is one row, and its
\* id names it
PileEntryIds == {<<u, g>> : u \in Users, g \in Games}

\* (a query by the id alone)
FindEntry_AnyUser(user_id, pile_entry_id) ==
    IF /\ pile_entry_id[1] \in DOMAIN pile_entries
       /\ IsSome(pile_entries[pile_entry_id[1]][pile_entry_id[2]])
    THEN Some([steam_game_id |-> pile_entry_id[2]])
    ELSE None

\* the query of the endpoints: PileEntry.id == pile_entry_id and
\* PileEntry.user_id == user_id
FindEntry(user_id, pile_entry_id) ==
    IF /\ pile_entry_id[1] \in DOMAIN pile_entries
       /\ IsSome(pile_entries[pile_entry_id[1]][pile_entry_id[2]])
       /\ pile_entry_id[1] = user_id
    THEN Some([steam_game_id |-> pile_entry_id[2]])
    ELSE None

\* the endpoint raises an HTTPException before it calls the service
Refused(op, u, pile_entry_id, error) ==
    /\ last' = [Last(op, u, EmptyMap, EmptyMap, 0, 0, 0, FALSE)
                  EXCEPT !.http_request = Some([pile_entry_id |-> pile_entry_id,
                                                error |-> error])]
    /\ UNCHANGED <<library, now, steam_games, pile_entries, api>>

\* POST /amnesty/{pile_entry_id}
post_amnesty(u, pile_entry_id) ==
    LET pile_entry == FindEntry(u, pile_entry_id)
    IN  IF ~IsSome(pile_entry)
        THEN Refused("grant_amnesty", u, pile_entry_id, "HTTP_404_NOT_FOUND")
        ELSE grant_amnesty(u, Get(pile_entry).steam_game_id)

\* POST /start-playing/{pile_entry_id}
post_start_playing(u, pile_entry_id) ==
    LET pile_entry == FindEntry(u, pile_entry_id)
    IN  IF ~IsSome(pile_entry)
        THEN Refused("start_playing", u, pile_entry_id, "HTTP_404_NOT_FOUND")
        ELSE start_playing(u, Get(pile_entry).steam_game_id)

\* POST /complete/{pile_entry_id}
post_complete(u, pile_entry_id) ==
    LET pile_entry == FindEntry(u, pile_entry_id)
    IN  IF ~IsSome(pile_entry)
        THEN Refused("mark_completed", u, pile_entry_id, "HTTP_404_NOT_FOUND")
        ELSE mark_completed(u, Get(pile_entry).steam_game_id)

\* POST /abandon/{pile_entry_id}
post_abandon(u, pile_entry_id, reason) ==
    LET pile_entry == FindEntry(u, pile_entry_id)
    IN  IF ~IsSome(pile_entry)
        THEN Refused("mark_abandoned", u, pile_entry_id, "HTTP_404_NOT_FOUND")
        ELSE mark_abandoned(u, Get(pile_entry).steam_game_id, reason)

\* POST /status/{pile_entry_id}
post_status(u, pile_entry_id, status_value) ==
    LET pile_entry == FindEntry(u, pile_entry_id)
    IN  IF ~IsSome(pile_entry)
        THEN Refused("update_status", u, pile_entry_id, "HTTP_404_NOT_FOUND")
        ELSE IF status_value \notin GameStatus
        THEN Refused("update_status", u, pile_entry_id, "HTTP_400_BAD_REQUEST")
        ELSE update_status(u, Get(pile_entry).steam_game_id, status_value)

\* -------------------------------------------- PileService.clear_user_pile
\* PileRepository.get_pile_count
get_pile_count(u) == Cardinality({g \in Games : IsSome(pile_entries[u][g])})

\* (a clear that leaves the import throttling as it is)
ClearedUser_KeepsSync(user) == user

\* the users row after the clear: last_sync_at is reset
ClearedUser(user) == [user EXCEPT !.last_sync_at = None]

\* DELETE /clear: deletes the entries of the user, answers their count
clear_user_pile(u) ==
    /\ pile_entries' = [pile_entries EXCEPT ![u] = [g \in Games |-> None]]
    /\ users' = [users EXCEPT ![u] = ClearedUser(@)]
    /\ last' = [Last("clear_user_pile", u, EmptyMap, EmptyMap, 0, 0, 0, TRUE)
                  EXCEPT !.cleared_count = get_pile_count(u)]
    /\ UNCHANGED <<library, now, steam_games, settings, import_tasks,
                   import_status>>

\* ------------------------------------------------------------ the system
Next ==
    \/ Tick
    \/ \E u \in DOMAIN library : \E batch \in OwnedGames(u, now) \ {EmptyMap} :
          import_games(u, batch)
    \/ \E u \in DOMAIN library : \E owned \in OwnedGames(u, now) : sync_playtime(u, owned)
    \/ \E u \in DOMAIN library : sync_playtime_error(u, EmptyMap, {})
    \/ \E u \in DOMAIN library : \E owned \in OwnedGames(u, now) :
          \E written \in SUBSET Checked(u, owned) \ {{}} :
             sync_playtime_error(u, owned, written)
    \/ \E u \in DOMAIN library : \E g \in library[u] : grant_amnesty(u, g)
    \/ \E u \in DOMAIN library : \E g \in library[u] : start_playing(u, g)
    \/ \E u \in DOMAIN library : \E g \in library[u] : mark_completed(u, g)
    \/ \E u \in DOMAIN library : \E g \in library[u], r \in ManualReasons :
          mark_abandoned(u, g, r)
    \/ \E u \in DOMAIN library : \E g \in library[u], s \in StatusStrings :
          update_status(u, g, s)
    \/ \E u \in DOMAIN library : get_pile(u)
    \/ \E u \in DOMAIN library, s \in GameStatus : get_filtered_pile(u, s)

Spec == Init /\ [][Next]_vars

\* ------------------------------------------- two users who own one game
\* the database of two registered users whose Steam accounts own the same
\* game, with the reconciliation operations and the listing
SharedLibraries == {[u \in Users |-> {"portal"}]}

InitShared ==
    /\ library \in SharedLibraries
    /\ now = StartDay
    /\ steam_games = [g \in Games |-> None]
    /\ pile_entries = [u \in DOMAIN library |-> [g \in Games |-> None]]
    /\ last = Last("init", "nobody", EmptyMap, EmptyMap, 0, 0, 0, TRUE)
    /\ settings = [IMPORT_RATE_LIMIT_HOURS |-> IMPORT_RATE_LIMIT_HOURS]
    /\ users = [u \in DOMAIN library |-> NewUser]
    /\ import_tasks = [u \in DOMAIN library |-> <<>>]
    /\ import_status = [u \in DOMAIN library |-> <<>>]

\* fewer reports of GetOwnedGames: no last-played time (a private profile),
\* one of today, or one of 91 days before the first day
FewOwnedGames(u, t) ==
    UNION {[S -> {d \in GameData(t) :
                    d.rtime_last_played \in
                       {None, Some(t * SecondsPerDay),
                        Some((StartDay - (ABANDON_DAYS + 1)) * SecondsPerDay)}}]
             : S \in SUBSET library[u]}

NextShared ==
    \/ Tick
    \/ \E u \in DOMAIN library :
          \E batch \in FewOwnedGames(u, now) \ {EmptyMap} :
             import_games(u, batch)
    \/ \E u \in DOMAIN library : \E owned \in FewOwnedGames(u, now) :
          sync_playtime(u, owned)
    \/ \E u \in DOMAIN library : get_pile(u)

SpecShared == InitShared /\ [][NextShared]_vars

\* --------------------------------------------- one user with two games
\* the reconciliation operations over a library of two games, for a private
\* profile: GetOwnedGames reports no last-played time
GamesLibraries == {[u \in {"alice"} |-> {"portal", "hl2"}]}

PrivateOwnedGames(u, t) ==
    UNION {[S -> {d \in GameData(t) : d.rtime_last_played = None}]
             : S \in SUBSET library[u]}

InitGames ==
    /\ library \in GamesLibraries
    /\ now = StartDay
    /\ steam_games = [g \in Games |-> None]
    /\ pile_entries = [u \in DOMAIN library |-> [g \in Games |-> None]]
    /\ last = Last("init", "nobody", EmptyMap, EmptyMap, 0, 0, 0, TRUE)
    /\ settings = [IMPORT_RATE_LIMIT_HOURS |-> IMPORT_RATE_LIMIT_HOURS]
    /\ users = [u \in DOMAIN library |-> NewUser]
    /\ import_tasks = [u \in DOMAIN library |-> <<>>]
    /\ import_status = [u \in DOMAIN library |-> <<>>]

NextGames ==
    \/ Tick
    \/ \E u \in DOMAIN library :
          \E batch \in PrivateOwnedGames(u, now) \ {EmptyMap} :
             import_games(u, batch)
    \/ \E u \in DOMAIN library : \E owned \in PrivateOwnedGames(u, now) :
          sync_playtime(u, owned)
    \/ \E u \in DOMAIN library : calculate_reality_check(u)

SpecGames == InitGames /\ [][NextGames]_vars

\* ------------------------------------------------ the import endpoint
\* a background task of the import: it awaits Steam's answer ("fetch"), then
\* the details of the games of its batch ("details"); it holds the id of the
\* import_status row it has created
NewTask(import_status_id) ==
    [pc |-> "fetch", owned_games |-> EmptyMap, id |-> import_status_id]

Remove(tasks, i) ==
    SubSeq(tasks, 1, i - 1) \o SubSeq(tasks, i + 1, Len(tasks))

\* the import_status row a run creates
NewImportStatus == [status |-> "running", completed_at |-> None]

\* (a run that ends without dating its end)
Ended_NoCompletedAt(record, status) == [record EXCEPT !.status = status]

\* the row as a run leaves it when it ends
Ended(record, status) ==
    [record EXCEPT !.status = status, !.completed_at = Some(now)]

\* the rate limit check of the endpoint: the time since the user's last
\* sync is less than the configured hours
RateLimited(u) ==
    /\ settings.IMPORT_RATE_LIMIT_HOURS > 0
    /\ IsSome(users[u].last_sync_at)
    /\ (now - Get(users[u].last_sync_at)) * SecondsPerDay
          < settings.IMPORT_RATE_LIMIT_HOURS * 60 * 60

\* POST /import: answers the rate limit error, or adds the background task,
\* which creates its import_status row
import_steam_library(u) ==
    /\ IF RateLimited(u)
       THEN /\ last' = Last("import_request", u, EmptyMap, EmptyMap, 0, 0, 0, FALSE)
            /\ UNCHANGED <<import_tasks, import_status>>
       ELSE /\ Len(import_tasks[u]) < MaxImportTasks
            /\ Len(import_status[u]) < MaxImportRuns
            /\ import_status' =
                 [import_status EXCEPT ![u] = Append(@, NewImportStatus)]
            /\ import_tasks' =
                 [import_tasks EXCEPT
                    ![u] = Append(@, NewTask(Len(import_status[u]) + 1))]
            /\ last' = Last("import_request", u, EmptyMap, EmptyMap, 0, 0, 0, TRUE)
    /\ UNCHANGED <<library, now, steam_games, pile_entries, settings, users>>

\* the task gets Steam's answer: with no games it ends here, without a
\* last_sync_at, as failed when the profile is not public and as completed
\* when it is; otherwise it goes on to fetch the details of its batch
import_fetched(u, i, owned_games) ==
    /\ import_tasks[u][i].pc = "fetch"
    /\ import_tasks' =
         [import_tasks EXCEPT ![u] =
            IF owned_games = EmptyMap THEN Remove(@, i)
            ELSE [@ EXCEPT ![i].pc = "details", ![i].owned_games = owned_games]]
    /\ IF owned_games = EmptyMap
       THEN \E is_public \in BOOLEAN :
               import_status' =
                 [import_status EXCEPT ![u][import_tasks[u][i].id] =
                    Ended(@, IF is_public THEN "completed" ELSE "failed")]
       ELSE UNCHANGED import_status
    /\ last' = Last("import_fetched", u, owned_games, EmptyMap, 0, 0, 0, TRUE)
    /\ UNCHANGED <<library, now, steam_games, pile_entries, settings, users>>

\* (a failed run that counts as a sync of the user)
import_failed_SetsLastSync(u, i) ==
    /\ import_tasks' = [import_tasks EXCEPT ![u] = Remove(@, i)]
    /\ import_status' =
         [import_status EXCEPT ![u][import_tasks[u][i].id] = Ended(@, "failed")]
    /\ users' = [users EXCEPT ![u].last_sync_at = Some(now)]
    /\ last' = Last("import_fetched", u, EmptyMap, EmptyMap, 0, 0, 0, FALSE)
    /\ UNCHANGED <<library, now, steam_games, pile_entries, settings>>

\* a call of the run raises (get_steam_owned_games, the visibility check,
\* the details of the batch): the session is rolled back, the import is
\* marked failed and ends
import_failed(u, i) ==
    /\ import_tasks' = [import_tasks EXCEPT ![u] = Remove(@, i)]
    /\ import_status' =
         [import_status EXCEPT ![u][import_tasks[u][i].id] = Ended(@, "failed")]
    /\ last' = Last("import_fetched", u, EmptyMap, EmptyMap, 0, 0, 0, FALSE)
    /\ UNCHANGED <<library, now, steam_games, pile_entries, settings, users>>

\* the task has the details: it processes its batch, sets the user's
\* last_sync_at, marks the import completed and ends
import_completed(u, i) ==
    /\ import_tasks[u][i].pc = "details"
    /\ process_game_batch(u, import_tasks[u][i].owned_games)
    /\ users' = [users EXCEPT ![u].last_sync_at = Some(now)]
    /\ import_tasks' = [import_tasks EXCEPT ![u] = Remove(@, i)]
    /\ import_status' =
         [import_status EXCEPT ![u][import_tasks[u][i].id] =
            Ended(@, "completed")]
    /\ last' = Last("import", u, import_tasks[u][i].owned_games, EmptyMap,
                    0, 0, 0, TRUE)
    /\ UNCHANGED <<library, now, settings>>

\* the settings of a deployment: the default, or a cooldown of 91 days
RateLimits == {IMPORT_RATE_LIMIT_HOURS, 24 * TickDays}

InitImport ==
    /\ library \in Libraries
    /\ now = StartDay
    /\ steam_games = [g \in Games |-> None]
    /\ pile_entries = [u \in DOMAIN library |-> [g \in Games |-> None]]
    /\ last = Last("init", "nobody", EmptyMap, EmptyMap, 0, 0, 0, TRUE)
    /\ settings \in [IMPORT_RATE_LIMIT_HOURS : RateLimits]
    /\ users = [u \in DOMAIN library |-> NewUser]
    /\ import_tasks = [u \in DOMAIN library |-> <<>>]
    /\ import_status = [u \in DOMAIN library |-> <<>>]

NextImport ==
    \/ Tick
    \/ \E u \in DOMAIN library : import_steam_library(u)
    \/ \E u \in DOMAIN library : \E i \in DOMAIN import_tasks[u] :
          \E owned \in FewOwnedGames(u, now) : import_fetched(u, i, owned)
    \/ \E u \in DOMAIN library : \E i \in DOMAIN import_tasks[u] :
          import_failed(u, i)
    \/ \E u \in DOMAIN library : \E i \in DOMAIN import_tasks[u] :
          import_completed(u, i)
    \/ \E u \in DOMAIN library : get_pile(u)

SpecImport == InitImport /\ [][NextImport]_vars

\* ------------------------------------- two users and their own entries
\* two registered users with the endpoints that address one pile entry and
\* the clear; their accounts own the same game and have never played it
NeverPlayedGames(u, t) ==
    UNION {[S -> {d \in GameData(t) : /\ d.playtime_forever = 0
                                      /\ d.rtime_last_played = None}]
             : S \in SUBSET library[u]}

NextOwners ==
    \/ \E u \in DOMAIN library :
          \E batch \in NeverPlayedGames(u, now) \ {EmptyMap} :
             import_games(u, batch)
    \/ \E u \in DOMAIN library, id \in PileEntryIds : post_amnesty(u, id)
    \/ \E u \in DOMAIN library, id \in PileEntryIds : post_start_playing(u, id)
    \/ \E u \in DOMAIN library, id \in PileEntryIds : post_complete(u, id)
    \/ \E u \in DOMAIN library, id \in PileEntryIds, r \in ManualReasons :
          post_abandon(u, id, r)
    \/ \E u \in DOMAIN library, id \in PileEntryIds, s \in StatusStrings :
          post_status(u, id, s)
    \/ \E u \in DOMAIN library : clear_user_pile(u)

SpecOwners == InitShared /\ [][NextOwners]_vars

\* ------------------------------------------ the life of a pile entry
\* everything that writes the pile of one user who has a private profile
\* and has not played yet: the import behind its cooldown gate, the sync,
\* the status actions, the clear
NextClear ==
    \/ Tick
    \/ \E u \in DOMAIN library : import_steam_library(u)
    \/ \E u \in DOMAIN library : \E i \in DOMAIN import_tasks[u] :
          \E owned \in NeverPlayedGames(u, now) : import_fetched(u, i, owned)
    \/ \E u \in DOMAIN library : \E i \in DOMAIN import_tasks[u] :
          import_failed(u, i)
    \/ \E u \in DOMAIN library : \E i \in DOMAIN import_tasks[u] :
          import_completed(u, i)
    \/ \E u \in DOMAIN library : \E owned \in NeverPlayedGames(u, now) :
          sync_playtime(u, owned)
    \/ \E u \in DOMAIN library : \E g \in library[u] : grant_amnesty(u, g)
    \/ \E u \in DOMAIN library : \E g \in library[u] : start_playing(u, g)
    \/ \E u \in DOMAIN library : \E g \in library[u] : mark_completed(u, g)
    \/ \E u \in DOMAIN library : \E g \in library[u], r \in ManualReasons :
          mark_abandoned(u, g, r)
    \/ \E u \in DOMAIN library : \E g \in library[u], s \in StatusStrings :
          update_status(u, g, s)
    \/ \E u \in DOMAIN library : clear_user_pile(u)

SpecClear == InitImport /\ [][NextClear]_vars

\* ------------------------------------------------ the runs of the import
\* the import runs of a user who has not played yet; every call a run awaits
\* returns or raises, so a run that is under way takes its next step
NextRuns ==
    \/ Tick
    \/ \E u \in DOMAIN library : import_steam_library(u)
    \/ \E u \in DOMAIN library : \E i \in DOMAIN import_tasks[u] :
          \E owned \in NeverPlayedGames(u, now) : import_fetched(u, i, owned)
    \/ \E u \in DOMAIN library : \E i \in DOMAIN import_tasks[u] :
          import_failed(u, i)
    \/ \E u \in DOMAIN library : \E i \in DOMAIN import_tasks[u] :
          import_completed(u, i)

\* the next step of the run of user u that holds the import_status row id
RunStep(u, id) ==
    /\ u \in DOMAIN library
    /\ \E i \in DOMAIN import_tasks[u] :
          /\ import_tasks[u][i].id = id
          /\ \/ \E owned \in NeverPlayedGames(u, now) :
                   import_fetched(u, i, owned)
             \/ import_failed(u, i)
             \/ import_completed(u, i)

SpecRuns ==
    /\ InitImport
    /\ [][NextRuns]_vars
    /\ \A u \in Users : \A id \in 1..MaxImportRuns : WF_vars(RunStep(u, id))

\* ------------------------------------------------- the account deletion
\* (a request that stamps the row again when a deletion is pending)
DeletionRequested_Restamps(user) ==
    [user EXCEPT !.deletion_requested_at = Some(now),
                 !.deletion_scheduled_at = Some(now + DELETION_GRACE_DAYS)]

\* the users row after DELETE /profile: a pending request is left as it is
DeletionRequested(user) ==
    IF IsSome(user.deletion_requested_at) THEN user
    ELSE [user EXCEPT !.deletion_requested_at = Some(now),
                      !.deletion_scheduled_at = Some(now + DELETION_GRACE_DAYS)]

\* DELETE /profile
request_account_deletion(u) ==
    /\ users' = [users EXCEPT ![u] = DeletionRequested(@)]
    /\ last' = Last("request_account_deletion", u, EmptyMap, EmptyMap, 0, 0, 0,
                    TRUE)
    /\ UNCHANGED <<library, now, steam_games, pile_entries, settings,
                   import_tasks, import_status>>

\* POST /profile/cancel-deletion: rejected when no deletion was requested
cancel_account_deletion(u) ==
    /\ IF ~IsSome(users[u].deletion_requested_at)
       THEN /\ last' = Last("cancel_account_deletion", u, EmptyMap, EmptyMap,
                            0, 0, 0, FALSE)
            /\ UNCHANGED users
       ELSE /\ users' = [users EXCEPT ![u].deletion_requested_at = None,
                                      ![u].deletion_scheduled_at = None]
            /\ last' = Last("cancel_account_deletion", u, EmptyMap, EmptyMap,
                            0, 0, 0, TRUE)
    /\ UNCHANGED <<library, now, steam_games, pile_entries, settings,
                   import_tasks, import_status>>

\* two users, the requests on their accounts, and the other operations that
\* write the users row or the pile
NextAccounts ==
    \/ Tick
    \/ \E u \in DOMAIN library : request_account_deletion(u)
    \/ \E u \in DOMAIN library : cancel_account_deletion(u)
    \/ \E u \in DOMAIN library :
          \E batch \in NeverPlayedGames(u, now) \ {EmptyMap} :
             import_games(u, batch)
    \/ \E u \in DOMAIN library : clear_user_pile(u)

SpecAccounts == InitShared /\ [][NextAccounts]_vars

\* ================================================================ claims
\* the entry of (u, g), which exists
Entry(u, g) == Get(pile_entries[u][g])

\* the step is a completed run of sync_playtime
SyncStep == last'.op = "sync" /\ last'.ok

\* the state is the answer of a listing; the database is as it was listed
Listed == last.op = "get_pile"

\* the reference instant the sync handed to the predicate for game g, for
\* the entry as it was before the step
SyncReference(u, g, owned_games) ==
    SyncActivity(Entry(u, g), LastPlayedMap(owned_games)[g]).date

\* the rule set of effective_status on a status, a playtime and a reference
\* instant: the derivation on an entry that has just these, and no Steam row
RuleSetAbandons(status, playtime, reference, current_time) ==
    effective_status([status |-> status, playtime_minutes |-> playtime,
                      created_at |-> reference, updated_at |-> reference,
                      abandon_date |-> None, abandon_reason |-> None],
                     None, current_time) = ABANDONED

\* the activity date of the entry of (u, g) is older than the threshold
Stale(u, g) ==
    ActivityDate(Entry(u, g), steam_games[g], now) < now - ABANDON_DAYS

\* C1: a second sync_playtime, run at the same time for the same user with
\* the same Steam data as the sync before it, updates no playtime and marks
\* no entry abandoned.
C1_SecondSyncChangesNothing ==
    [][(/\ last.op = "sync" /\ last.ok
        /\ SyncStep
        /\ last'.user = last.user
        /\ last'.owned_games = last.owned_games
        /\ now' = now)
       => (last'.updated_count = 0 /\ last'.abandoned_count = 0)]_vars

\* C2: for every checked entry stored as Unplayed or Playing, the sync-time
\* predicate answers Abandoned exactly when the rule set of effective_status,
\* on the current playtime and the same reference instant, answers Abandoned.
C2_PredicateIsTheRuleSet ==
    [][SyncStep =>
         \A g \in DOMAIN last'.statuses :
            Entry(last'.user, g).status \in {UNPLAYED, PLAYING} =>
               ((last'.statuses[g] = ABANDONED)
                  <=> RuleSetAbandons(Entry(last'.user, g).status,
                                      last'.owned_games[g].playtime_forever,
                                      SyncReference(last'.user, g, last'.owned_games),
                                      now))]_vars

\* C3: an entry stored as Completed or AmnestyGranted is displayed with its
\* stored status, whatever its playtime and timestamps are.
C3_TerminalKept ==
    Listed =>
      \A g \in DOMAIN last.statuses :
         Entry(last.user, g).status \in {COMPLETED, AMNESTY_GRANTED} =>
            last.statuses[g] = Entry(last.user, g).status

\* a completed entry that has playtime and no activity for over 90 days has
\* been listed
C3_Witness ==
    /\ Listed
    /\ \E g \in DOMAIN last.statuses :
          /\ Entry(last.user, g).status = COMPLETED
          /\ Entry(last.user, g).playtime_minutes > 0
          /\ Stale(last.user, g)

\* C4: an entry stored as Abandoned with a non-empty reason that does not
\* begin with "Automatically detected" is displayed as Abandoned, however
\* recent its activity is.
C4_ManualAbandonKept ==
    Listed =>
      \A g \in DOMAIN last.statuses :
         ManuallyAbandoned(Entry(last.user, g)) => last.statuses[g] = ABANDONED

\* a manually abandoned entry with recent activity has been listed
C4_Witness ==
    /\ Listed
    /\ \E g \in DOMAIN last.statuses :
          /\ ManuallyAbandoned(Entry(last.user, g))
          /\ ~Stale(last.user, g)

\* C5: an entry stored as Unplayed with zero playtime whose activity date is
\* more than 90 days before now is displayed as Abandoned.
C5_StaleUnplayedAbandoned ==
    Listed =>
      \A g \in DOMAIN last.statuses :
         (/\ Entry(last.user, g).status = UNPLAYED
          /\ Entry(last.user, g).playtime_minutes = 0
          /\ Stale(last.user, g)) => last.statuses[g] = ABANDONED

\* a stale unplayed entry, stale by its database timestamps, has been listed
C5_Witness ==
    /\ Listed
    /\ \E g \in DOMAIN last.statuses :
          /\ Entry(last.user, g).status = UNPLAYED
          /\ Entry(last.user, g).playtime_minutes = 0
          /\ Stale(last.user, g)
          /\ Get(steam_games[g]).rtime_last_played = None

C7_OneDirectional ==
    Listed =>
      \A g \in DOMAIN last.statuses :
         /\ last.statuses[g] # Entry(last.user, g).status =>
               /\ Entry(last.user, g).status \in {UNPLAYED, PLAYING}
               /\ last.statuses[g] = ABANDONED
         /\ Entry(last.user, g).status = ABANDONED => last.statuses[g] = ABANDONED

\* an entry the sync abandoned, with recent activity since, has been listed
C7_Witness ==
    /\ Listed
    /\ \E g \in DOMAIN last.statuses :
          /\ Entry(last.user, g).status = ABANDONED
          /\ IsSome(Entry(last.user, g).abandon_reason)
          /\ StartsWith(Get(Entry(last.user, g).abandon_reason), AUTO_PREFIX)
          /\ Entry(last.user, g).playtime_minutes > 0
          /\ ~Stale(last.user, g)

\* C8: a sync that reports playtime > 0 for an entry stored as Unplayed with
\* zero playtime stores the reported playtime and makes the entry Playing.
C8_SyncStartsPlaying ==
    [][SyncStep =>
         \A g \in DOMAIN last'.statuses :
            (/\ Entry(last'.user, g).status = UNPLAYED
             /\ Entry(last'.user, g).playtime_minutes = 0
             /\ last'.owned_games[g].playtime_forever > 0)
            => /\ Get(pile_entries'[last'.user][g]).playtime_minutes
                    = last'.owned_games[g].playtime_forever
               /\ Get(pile_entries'[last'.user][g]).status = PLAYING]_vars

C10_PlaytimeAdopted ==
    [][SyncStep =>
         LET u == last'.user
             owned_games == last'.owned_games
         IN  /\ DOMAIN last'.statuses = Checked(u, owned_games)
             /\ \A g \in Checked(u, owned_games) :
                   Get(pile_entries'[u][g]).playtime_minutes
                      = owned_games[g].playtime_forever
             /\ last'.updated_count =
                   Cardinality({g \in Checked(u, owned_games) :
                                  Entry(u, g).playtime_minutes
                                     # owned_games[g].playtime_forever})]_vars

\* a sync has lowered the playtime of an entry to 0 and counted it
C10_Witness ==
    /\ last.op = "sync" /\ last.ok
    /\ last.updated_count = 1
    /\ \E g \in DOMAIN last.statuses :
          /\ Entry(last.user, g).playtime_minutes = 0
          /\ Entry(last.user, g).status = PLAYING

\* the text s contains the words of part, in a row
Contains(s, part) ==
    \E i \in 1..(Len(s) - Len(part) + 1) :
       SubSeq(s, i, i + Len(part) - 1) = part

\* the sync step has just turned the entry of (u, g) into an abandoned one
AbandonedBySync(u, g) ==
    /\ SyncStep
    /\ u = last'.user
    /\ g \in DOMAIN last'.statuses
    /\ Entry(u, g).status # ABANDONED
    /\ Get(pile_entries'[u][g]).status = ABANDONED

\* the reason the step has written on the entry of (u, g) contains
\* "using <from_db> data" when the reference instant came from updated_at or
\* created_at, and "using <from_steam> data" when it came from Steam
ReasonNames(u, g, from_db, from_steam) ==
    LET reason == Get(Get(pile_entries'[u][g]).abandon_reason)
    IN  IF IsSome(LastPlayedMap(last'.owned_games)[g])
        THEN Contains(reason, <<"using", from_steam, "data">>)
        ELSE Contains(reason, <<"using", from_db, "data">>)

\* C11 (as stated): the reason the sync writes when it abandons an entry
\* contains "using Local data" when the reference instant came from the
\* entry's own timestamps and "using Remote data" when it came from Steam.
C11_ReasonNamesLocalRemote ==
    [][\A u \in DOMAIN library, g \in Games :
          AbandonedBySync(u, g) => ReasonNames(u, g, "Local", "Remote")]_vars

\* C11 (amended): the reason contains "using Database data" when the
\* reference instant came from the entry's own timestamps and "using Steam
\* data" when it came from Steam's last-played timestamp.
C11_ReasonNamesDatabaseSteam ==
    [][\A u \in DOMAIN library, g \in Games :
          AbandonedBySync(u, g) => ReasonNames(u, g, "Database", "Steam")]_vars

\* a sync to which Steam reported no last-played time has abandoned an entry
\* that has playtime
C11_Witness ==
    /\ last.op = "sync" /\ last.ok
    /\ last.abandoned_count = 1
    /\ \E g \in DOMAIN last.statuses :
          /\ ~IsSome(LastPlayedMap(last.owned_games)[g])
          /\ Entry(last.user, g).playtime_minutes > 0
          /\ Entry(last.user, g).status = ABANDONED

\* the checked entries for which the predicate answered Abandoned while the
\* stored status was not Abandoned
Transitioned ==
    {g \in DOMAIN last'.statuses :
       /\ last'.statuses[g] = ABANDONED
       /\ Entry(last'.user, g).status # ABANDONED}

\* C12: when the predicate answers Abandoned for an entry not stored as
\* Abandoned, the sync stores Abandoned, dates the abandonment with the time
\* of the sync and writes a reason that begins with "Automatically detected";
\* abandoned_count is the number of entries it has turned this way.
C12_AutoAbandonWritten ==
    [][SyncStep =>
         /\ \A g \in Transitioned :
               LET after == Get(pile_entries'[last'.user][g])
               IN  /\ after.status = ABANDONED
                   /\ after.abandon_date = Some(now)
                   /\ IsSome(after.abandon_reason)
                   /\ StartsWith(Get(after.abandon_reason), AUTO_PREFIX)
         /\ last'.abandoned_count = Cardinality(Transitioned)]_vars

\* a sync run after the first day has abandoned an entry created on the
\* first day and dated the abandonment with its own time
C12_Witness ==
    /\ last.op = "sync" /\ last.ok
    /\ last.abandoned_count = 1
    /\ now > StartDay
    /\ \E g \in DOMAIN last.statuses :
          /\ Entry(last.user, g).status = ABANDONED
          /\ Entry(last.user, g).abandon_date = Some(now)
          /\ Entry(last.user, g).created_at = Some(StartDay)

\* C13: a sync leaves every entry whose game is absent from the fetched
\* records as it was; a sync that fetched no record checks, updates and
\* abandons nothing and changes no entry.
C13_AbsentUntouched ==
    [][SyncStep =>
         /\ \A u \in DOMAIN library, g \in Games :
               g \notin DOMAIN last'.owned_games =>
                  pile_entries'[u][g] = pile_entries[u][g]
         /\ last'.owned_games = EmptyMap =>
               /\ last'.checked_count = 0
               /\ last'.updated_count = 0
               /\ last'.abandoned_count = 0
               /\ pile_entries' = pile_entries]_vars

\* a sync has abandoned the entry of the game that was fetched and has
\* left a stale entry of a game that was not as it was
C13_Witness ==
    /\ last.op = "sync" /\ last.ok
    /\ last.abandoned_count = 1
    /\ \E g \in Games \ DOMAIN last.owned_games :
          /\ IsSome(pile_entries[last.user][g])
          /\ Entry(last.user, g).status = PLAYING
          /\ Stale(last.user, g)

\* the step is an import
ImportStep == last'.op = "import" /\ last'.ok

\* C14: an import that processes a record of a game the user has no entry
\* for creates the entry with the reported playtime, Unplayed when that is 0
\* and Playing otherwise, whatever the record's last-played timestamp is.
C14_ImportSeeds ==
    [][ImportStep =>
         \A g \in DOMAIN last'.owned_games :
            ~IsSome(pile_entries[last'.user][g]) =>
               /\ IsSome(pile_entries'[last'.user][g])
               /\ LET created == Get(pile_entries'[last'.user][g])
                       playtime == last'.owned_games[g].playtime_forever
                   IN  /\ created.playtime_minutes = playtime
                       /\ created.status =
                             IF playtime = 0 THEN UNPLAYED ELSE PLAYING]_vars

\* an import has created an entry for a game with playtime that Steam
\* reports as last played more than 90 days ago
C14_Witness ==
    /\ last.op = "import"
    /\ \E g \in DOMAIN last.owned_games :
          /\ Entry(last.user, g).created_at = Some(now)
          /\ Entry(last.user, g).updated_at = None
          /\ Entry(last.user, g).status = PLAYING
          /\ last.owned_games[g].playtime_forever > 0
          /\ IsSome(last.owned_games[g].rtime_last_played)
          /\ Get(last.owned_games[g].rtime_last_played) > 0
          /\ Stale(last.user, g)

\* C15: an import or a sync for one user changes neither the stored fields
\* nor the displayed status of any entry of another user, also when both
\* own the same Steam game.
C15_UsersIndependent ==
    [][(ImportStep \/ SyncStep) =>
         \A other \in DOMAIN library \ {last'.user} :
            /\ pile_entries'[other] = pile_entries[other]
            /\ Displayed(other)' = Displayed(other)]_vars

\* C16: with a cooldown configured, two import runs of one user are never
\* under way at the same time: a request that arrives while an accepted
\* import is still running is rejected.
C16_RunsNeverOverlap ==
    settings.IMPORT_RATE_LIMIT_HOURS > 0 =>
       \A u \in DOMAIN library : Len(import_tasks[u]) <= 1

\* C17: a sync that fails before its commit, at the fetch or later, leaves
\* every pile entry (playtime, status, abandon_date and abandon_reason
\* included) as it was before the sync.
C17_FailedSyncChangesNothing ==
    [][(last'.op = "sync" /\ ~last'.ok) =>
         /\ pile_entries' = pile_entries
         /\ steam_games' = steam_games]_vars

\* a sync has failed after it had stored a new playtime on an entry and
\* marked it abandoned
C17_Witness ==
    /\ last.op = "sync" /\ ~last.ok
    /\ last.checked_count = 1
    /\ last.updated_count = 1
    /\ last.abandoned_count = 1

\* C18: every entry the listing returns for a status filter is displayed
\* with that status.
C18_FilteredShowsFilter ==
    last.op = "get_filtered_pile" =>
       \A g \in DOMAIN last.statuses :
          last.statuses[g] = Get(last.status_filter)

\* the explicit user actions, and the status each one asks for
UserOps ==
    {"start_playing", "mark_completed", "mark_abandoned", "grant_amnesty",
     "update_status"}

AsksFor(op, status) ==
    /\ op = "start_playing" => status = PLAYING
    /\ op = "mark_completed" => status = COMPLETED
    /\ op = "mark_abandoned" => status = ABANDONED
    /\ op = "grant_amnesty" => status = AMNESTY_GRANTED

\* C19: a user action on an existing entry, with one of the five valid
\* statuses, stores the status it asks for, whatever the stored status was,
\* and reports success.
C19_UserActionSetsStatus ==
    [][last'.op \in UserOps =>
         \A g \in DOMAIN last'.statuses :
            /\ AsksFor(last'.op, last'.statuses[g])
            /\ (/\ IsSome(pile_entries[last'.user][g])
                /\ last'.statuses[g] \in GameStatus)
               => /\ last'.ok
                  /\ Get(pile_entries'[last'.user][g]).status
                        = last'.statuses[g]]_vars

\* start_playing has taken up an entry that had been abandoned by hand
C19_Witness ==
    /\ last.op = "start_playing" /\ last.ok
    /\ \E g \in DOMAIN last.statuses :
          /\ Entry(last.user, g).status = PLAYING
          /\ IsSome(Entry(last.user, g).abandon_date)
          /\ Entry(last.user, g).abandon_reason \in {Some(r) : r \in ManualReasons}

\* C20: update_status with a string that is none of the five statuses, and
\* any user action on a game the user has no entry for, answers False and
\* leaves every pile entry as it was.
C20_RejectedActionChangesNothing ==
    [][last'.op \in UserOps =>
         \A g \in DOMAIN last'.statuses :
            (\/ ~IsSome(pile_entries[last'.user][g])
             \/ last'.statuses[g] \notin GameStatus)
            => /\ ~last'.ok
               /\ pile_entries' = pile_entries]_vars

\* update_status has been given an unknown status for an existing entry
C20_Witness ==
    /\ last.op = "update_status" /\ ~last.ok
    /\ \E g \in DOMAIN last.statuses :
          /\ last.statuses[g] \notin GameStatus
          /\ IsSome(pile_entries[last.user][g])

\* grant_amnesty has been asked for a game the user has no entry for
C20_WitnessNoEntry ==
    /\ last.op = "grant_amnesty" /\ ~last.ok
    /\ \E g \in DOMAIN last.statuses : ~IsSome(pile_entries[last.user][g])

\* a request of user u that addresses the pile entry with the given id
AddressesEntry(u, pile_entry_id) ==
    \/ post_amnesty(u, pile_entry_id)
    \/ post_start_playing(u, pile_entry_id)
    \/ post_complete(u, pile_entry_id)
    \/ \E r \in ManualReasons : post_abandon(u, pile_entry_id, r)
    \/ \E s \in StatusStrings : post_status(u, pile_entry_id, s)

\* the answer of the step is "not found" for the addressed entry
AnsweredNotFound(pile_entry_id) ==
    last'.http_request = Some([pile_entry_id |-> pile_entry_id,
                               error |-> "HTTP_404_NOT_FOUND"])

\* C21: a user action of user A (amnesty, start playing, complete, abandon,
\* direct status set, clear pile) leaves every pile entry of every other
\* user B as it is, and a request of A that addresses an entry of B is
\* answered as not found.
C21_OtherUsersUntouched ==
    [][/\ \A a \in DOMAIN library :
            (last'.user = a /\ last'.op \in UserOps \cup {"clear_user_pile"})
               => \A b \in DOMAIN library \ {a} :
                     pile_entries'[b] = pile_entries[b]
       /\ \A a \in DOMAIN library : \A id \in PileEntryIds :
            (id[1] # a /\ AddressesEntry(a, id))
               => (AnsweredNotFound(id) /\ pile_entries' = pile_entries)]_vars

\* alice, who has the game in her pile, addressed bob's entry of it, which
\* exists, and was answered not found
C21_Witness ==
    /\ last.user = "alice"
    /\ last.http_request = Some([pile_entry_id |-> <<"bob", "portal">>,
                                 error |-> "HTTP_404_NOT_FOUND"])
    /\ IsSome(pile_entries["bob"]["portal"])
    /\ IsSome(pile_entries["alice"]["portal"])

\* the games user u has a pile entry for
Pile(u) == {g \in Games : IsSome(pile_entries[u][g])}

\* C22: no step other than clear_user_pile removes a pile entry; a
\* clear_user_pile of user u removes every entry of u, answers the number
\* of entries u had, and resets u's last_sync_at, so that the cooldown gate
\* lets u's next import pass.
C22_OnlyClearDeletes ==
    [][/\ last'.op # "clear_user_pile"
            => \A u \in DOMAIN library : Pile(u) \subseteq Pile(u)'
       /\ \A u \in DOMAIN library :
            (last'.op = "clear_user_pile" /\ last'.user = u)
               => /\ Pile(u)' = {}
                  /\ last'.cleared_count = Cardinality(Pile(u))
                  /\ users'[u].last_sync_at = None
                  /\ ~RateLimited(u)']_vars

\* a clear removed the entry of a user whose import had completed the same
\* day, under a cooldown of 91 days
C22_Witness ==
    /\ last.op = "clear_user_pile"
    /\ last.cleared_count = 1
    /\ settings.IMPORT_RATE_LIMIT_HOURS > 0
    /\ now = StartDay
    /\ ~RateLimited(last.user)

\* a last-played value that is given and is 0 or negative
NonPositive(rtime_last_played) ==
    IsSome(rtime_last_played) /\ Get(rtime_last_played) <= 0

\* the reference instant of an entry when Steam's last-played time is absent
DatabaseReference(entry, current_time) == ActivityDate(entry, None, current_time)

\* C23: a Steam last-played value of 0 or below counts as absent, in the
\* listing and in the sync: for an entry whose game has such a value, the
\* reference instant of effective_status is the one it has with no Steam
\* value at all (updated_at, else created_at), and the reference instant the
\* sync hands to its predicate is updated_at, else created_at.
C23_NonPositiveIsAbsent ==
    [][/\ last'.op = "get_pile"
            => \A g \in DOMAIN last'.statuses :
                  (/\ IsSome(steam_games[g])
                   /\ NonPositive(Get(steam_games[g]).rtime_last_played))
                     => ActivityDate(Entry(last'.user, g), steam_games[g], now)
                          = DatabaseReference(Entry(last'.user, g), now)
       /\ SyncStep
            => \A g \in DOMAIN last'.statuses :
                  NonPositive(last'.owned_games[g].rtime_last_played)
                     => SyncReference(last'.user, g, last'.owned_games)
                          = OrElse(Entry(last'.user, g).updated_at,
                                   Entry(last'.user, g).created_at)]_vars

\* the first available of: a positive Steam last-played time, updated_at,
\* created_at, a sentinel older than the threshold
FirstAvailable(entry, steam_game, current_time) ==
    LET rtime == IF IsSome(steam_game) THEN Get(steam_game).rtime_last_played
                 ELSE None
    IN  IF IsSome(rtime) /\ Get(rtime) > 0 THEN FromTimestamp(Get(rtime))
        ELSE IF IsSome(entry.updated_at) THEN Get(entry.updated_at)
        ELSE IF IsSome(entry.created_at) THEN Get(entry.created_at)
        ELSE current_time - ABANDON_DAYS - 1

\* C24: the reference instant of effective_status is the first available of
\* the positive Steam last-played time, updated_at, created_at and a sentinel
\* older than the threshold: every listed entry is displayed with the status
\* the derivation gives on that instant, and with a positive Steam time the
\* instant is Steam's.
C24_ReferenceChain ==
    Listed =>
      \A g \in DOMAIN last.statuses :
         LET entry == Entry(last.user, g)
             reference == FirstAvailable(entry, steam_games[g], now)
         IN  /\ (ActivityDate(entry, steam_games[g], now) < now - ABANDON_DAYS)
                  <=> (reference < now - ABANDON_DAYS)
             /\ last.statuses[g] =
                  effective_status([entry EXCEPT !.updated_at = Some(reference)],
                                   None, now)

\* C25: right after a sync has committed, every entry it checked has the
\* effective status it is stored with: the derivation reports no abandonment
\* the sync has not written.
C25_SyncLeavesNothingToDerive ==
    (last.op = "sync" /\ last.ok) =>
       \A g \in DOMAIN last.statuses :
          effective_status(Entry(last.user, g), steam_games[g], now)
             = Entry(last.user, g).status

\* C26: an import that brings, for an entry that exists, the playtime the
\* entry has and the last-played value its steam_games row has, leaves the
\* entry's playtime, stored status and updated_at as they are, and with them
\* the status it is displayed with.
C26_SameImportChangesNothing ==
    [][ImportStep =>
         \A u \in DOMAIN library : \A g \in DOMAIN last'.owned_games :
            (/\ last'.user = u
             /\ IsSome(pile_entries[u][g])
             /\ last'.owned_games[g].playtime_forever
                  = Entry(u, g).playtime_minutes
             /\ IsSome(steam_games[g])
             /\ last'.owned_games[g].rtime_last_played
                  = Get(steam_games[g]).rtime_last_played)
               => /\ Entry(u, g)'.playtime_minutes = Entry(u, g).playtime_minutes
                  /\ Entry(u, g)'.status = Entry(u, g).status
                  /\ Entry(u, g)'.updated_at = Entry(u, g).updated_at
                  /\ effective_status(Entry(u, g), steam_games[g], now)'
                       = effective_status(Entry(u, g), steam_games[g], now)]_vars

\* the import_status row id of user u exists and has the given status
HasStatus(u, id, statuses) ==
    /\ u \in DOMAIN library
    /\ id \in DOMAIN import_status[u]
    /\ import_status[u][id].status \in statuses

TerminalStatuses == {"completed", "failed"}

\* C27: an accepted import creates one import_status row, in status
\* "running"; a row that is running is eventually completed or failed; a row
\* that is completed or failed stays as it is; and a row has a completed_at
\* exactly when it is completed or failed.
C27_RunsEnd ==
    /\ [](\A u \in DOMAIN library : \A id \in DOMAIN import_status[u] :
            /\ import_status[u][id].status \in {"running"} \cup TerminalStatuses
            /\ IsSome(import_status[u][id].completed_at)
                 <=> import_status[u][id].status \in TerminalStatuses)
    /\ [][\A u \in DOMAIN library :
            /\ (last'.op = "import_request" /\ last'.ok /\ last'.user = u)
                 => import_status'[u] = Append(import_status[u], NewImportStatus)
            /\ ~(last'.op = "import_request" /\ last'.ok /\ last'.user = u)
                 => Len(import_status'[u]) = Len(import_status[u])
            /\ \A id \in DOMAIN import_status[u] :
                  import_status[u][id].status \in TerminalStatuses
                     => import_status'[u][id] = import_status[u][id]]_vars
    /\ \A u \in Users : \A id \in 1..MaxImportRuns :
          HasStatus(u, id, {"running"}) ~> HasStatus(u, id, TerminalStatuses)

\* one import of alice has ended completed and another has ended failed
C27_Witness ==
    /\ \E id \in DOMAIN import_status["alice"] :
          /\ import_status["alice"][id].status = "completed"
          /\ IsSome(import_status["alice"][id].completed_at)
    /\ \E id \in DOMAIN import_status["alice"] :
          /\ import_status["alice"][id].status = "failed"
          /\ IsSome(import_status["alice"][id].completed_at)
    /\ last.op = "import"

\* the step ends an import run of user u without success: a call raised, or
\* Steam reported no games
UnsuccessfulImport(u) ==
    /\ last'.op = "import_fetched"
    /\ last'.user = u
    /\ ~last'.ok \/ last'.owned_games = EmptyMap
    /\ Len(import_tasks'[u]) < Len(import_tasks[u])

\* C28: a user's last_sync_at gets a value only in the step of an import
\* that has processed the games of a library that is not empty, and the
\* value is the time of that step; the end of an import that failed or found
\* no games leaves the users row as it is, and with it the answer of the
\* cooldown gate.
C28_OnlyCompletedImportSetsLastSync ==
    [][\A u \in DOMAIN library :
         /\ (/\ users'[u].last_sync_at # users[u].last_sync_at
             /\ IsSome(users'[u].last_sync_at))
              => /\ last'.op = "import" /\ last'.ok /\ last'.user = u
                 /\ last'.owned_games # EmptyMap
                 /\ users'[u].last_sync_at = Some(now)
         /\ UnsuccessfulImport(u)
              => /\ users'[u] = users[u]
                 /\ RateLimited(u)' = RateLimited(u)]_vars

\* under a cooldown of 91 days an import of alice has failed; she has no
\* last_sync_at and the gate lets her retry
C28_Witness ==
    /\ last.op = "import_fetched" /\ ~last.ok /\ last.user = "alice"
    /\ settings.IMPORT_RATE_LIMIT_HOURS > 0
    /\ \E id \in DOMAIN import_status["alice"] :
          import_status["alice"][id].status = "failed"
    /\ users["alice"].last_sync_at = None
    /\ ~RateLimited("alice")

\* the entries of user u the listing displays as Unplayed
DisplayedUnplayed(u) == {g \in DOMAIN Displayed(u) : Displayed(u)[g] = UNPLAYED}

\* C29: the unplayed_games count of the reality check is the number of the
\* user's entries that the listing displays with status Unplayed.
C29_UnplayedCountIsDisplayed ==
    last.op = "reality_check" =>
       Get(last.reality_check).unplayed_games
          = Cardinality(DisplayedUnplayed(last.user))

\* a deletion of the account of user u is pending
DeletionPending(u) == IsSome(users[u].deletion_requested_at)

\* C30: deletion_requested_at is null exactly when deletion_scheduled_at is,
\* and when set the scheduled time is 30 days after the requested time; a
\* request while a deletion is pending changes neither timestamp; a
\* cancellation with no pending deletion is rejected and changes nothing.
C30_DeletionTimestampsPaired ==
    /\ [](\A u \in DOMAIN library :
            /\ IsSome(users[u].deletion_requested_at)
                 <=> IsSome(users[u].deletion_scheduled_at)
            /\ DeletionPending(u)
                 => Get(users[u].deletion_scheduled_at)
                      = Get(users[u].deletion_requested_at) + DELETION_GRACE_DAYS)
    /\ [][\A u \in DOMAIN library :
            /\ (/\ last'.op = "request_account_deletion" /\ last'.user = u
                /\ DeletionPending(u))
                 => users'[u] = users[u]
            /\ (/\ last'.op = "cancel_account_deletion" /\ last'.user = u
                /\ ~DeletionPending(u))
                 => (~last'.ok /\ users' = users)
            /\ (/\ last'.op = "cancel_account_deletion" /\ last'.user = u
                /\ DeletionPending(u))
                 => (last'.ok /\ ~DeletionPending(u)')]_vars

\* alice has asked again for the deletion she asked for 91 days ago, and the
\* timestamps are those of her first request
C30_Witness ==
    /\ last.op = "request_account_deletion" /\ last.user = "alice"
    /\ users["alice"].deletion_requested_at = Some(StartDay)
    /\ users["alice"].deletion_scheduled_at = Some(StartDay + DELETION_GRACE_DAYS)
    /\ now = StartDay + TickDays

====
